---- MODULE Spec2Model ----
(***************************************************************************)
(* Model of the plagiarism detector of src/main.cpp: the three metrics     *)
(* (common-substring similarity, Levenshtein distance, Broder containment),*)
(* the all-pairs similarity matrix and the ranking of main, and the        *)
(* highlight loop.                                                         *)
(*                                                                         *)
(* Spec follows main from the loaded documents to the sorted pair list     *)
(* (lines 186-209).  The report loop of main (lines 211-232) calls         *)
(* editDistance, broderContainment and highlightSimilarities on the first  *)
(* ten ranked pairs and writes HTML; those functions are followed on       *)
(* inputs of their own by SpecMetrics and SpecHighlight.                   *)
(*                                                                         *)
(* A text (std::string) is a sequence of one-character strings.  A double  *)
(* is a record [nan, num, den]: NaN, or the reduced fraction num/den that  *)
(* the division of two ints yields.                                        *)
(***************************************************************************)
EXTENDS Integers, Sequences, FiniteSets, TLC

VARIABLES
    pc,                 \* position of the running function
    str1, str2,         \* the two texts a metric / the highlighter is called with
    minLen,             \* the minLength argument of the call
    substrings,         \* result of findCommonSubstrings(str1, str2, minLen)
    sim,                \* result of similarityMetric(str1, str2, minLen)
    ed,                 \* result of editDistance(str1, str2)
    bc,                 \* result of broderContainment(str1, str2)
    documents,          \* main: vector<string> documents
    similarityMatrix,   \* generateSimilarityMatrix: the n x n matrix under construction
    i, j,               \* generateSimilarityMatrix: loop indices (0-based)
    calls,              \* how often similarityMetric was invoked per pair <<i, j>>
    mostSimilarPairs,   \* main: vector<pair<int,int>> mostSimilarPairs
    pending,            \* highlightSimilarities: substrings the loop has not visited yet
    highlightedStr1,    \* highlightSimilarities: rendered copy of str1
    highlightedStr2     \* highlightSimilarities: rendered copy of str2

vars == <<pc, str1, str2, minLen, substrings, sim, ed, bc, documents,
          similarityMatrix, i, j, calls, mostSimilarPairs, pending,
          highlightedStr1, highlightedStr2>>

metricVars == <<substrings, sim, ed, bc>>
mainVars == <<documents, similarityMatrix, i, j, calls, mostSimilarPairs>>
highlightVars == <<pending, highlightedStr1, highlightedStr2>>

-----------------------------------------------------------------------------
(* Bounds of the model                                                     *)

\* longest text the metrics are called with
MaxLen == 4
\* largest minLength the metrics are called with
MaxMinLen == 2

Alphabet == {"a", "b"}

RECURSIVE TextsOfLen(_)
TextsOfLen(n) ==
    IF n = 0 THEN {<< >>}
    ELSE {Append(t, c) : t \in TextsOfLen(n - 1), c \in Alphabet}

Texts == UNION {TextsOfLen(n) : n \in 0..MaxLen}

Kitten == <<"k", "i", "t", "t", "e", "n">>
Sitting == <<"s", "i", "t", "t", "i", "n", "g">>

-----------------------------------------------------------------------------
(* std::string and double                                                  *)

\* std::string::substr(pos, len), pos counted from 0
substr(s, pos, len) == SubSeq(s, pos + 1, pos + len)

Max(a, b) == IF a >= b THEN a ELSE b
Min(a, b) == IF a <= b THEN a ELSE b

RECURSIVE Gcd(_, _)
Gcd(a, b) == IF b = 0 THEN a ELSE Gcd(b, a % b)

NaN == [nan |-> TRUE, num |-> 0, den |-> 0]
Zero == [nan |-> FALSE, num |-> 0, den |-> 1]

\* static_cast<double>(num) / den for ints num >= 0, den >= 0.  0.0 / 0 is NaN
\* (num > 0 with den = 0 never happens: a text with a substring is not empty).
Divide(num, den) ==
    IF den = 0 THEN NaN
    ELSE LET g == Gcd(num, den)
         IN  [nan |-> FALSE, num |-> num \div g, den |-> den \div g]

\* operator> and operator>= of double: false as soon as an operand is NaN
Greater(x, y) == ~x.nan /\ ~y.nan /\ x.num * y.den > y.num * x.den
GreaterEq(x, y) == ~x.nan /\ ~y.nan /\ x.num * y.den >= y.num * x.den
\* operator== of double
EqualTo(x, y) == ~x.nan /\ ~y.nan /\ x = y

-----------------------------------------------------------------------------
(* findCommonSubstrings                                                    *)

\* vector<vector<int>> dp(m + 1, vector<int>(n + 1, 0))
zeroTable(m, n) == [c \in (0..m) \X (0..n) |-> 0]

\* dp[ii][jj] once the loops have passed cell (ii, jj): row 0 and column 0
\* stay 0, a cell whose characters differ stays 0, and a cell whose
\* characters match is dp[ii - 1][jj - 1] + 1
RECURSIVE commonDp(_, _, _, _)
commonDp(s1, s2, ii, jj) ==
    IF ii = 0 \/ jj = 0 THEN 0
    ELSE IF s1[ii] = s2[jj] THEN commonDp(s1, s2, ii - 1, jj - 1) + 1
    ELSE 0

\* the cells (ii, jj) at which the loops insert into the unordered_set
insertingCells(s1, s2, minLength) ==
    {c \in (1..Len(s1)) \X (1..Len(s2)) :
        /\ s1[c[1]] = s2[c[2]]
        /\ commonDp(s1, s2, c[1], c[2]) >= minLength}

\* the unordered_set when the loops have ended (returned as a vector in the
\* set's unspecified order)
findCommonSubstrings(s1, s2, minLength) ==
    {substr(s1, c[1] - commonDp(s1, s2, c[1], c[2]), commonDp(s1, s2, c[1], c[2])) :
        c \in insertingCells(s1, s2, minLength)}

-----------------------------------------------------------------------------
(* similarityMetric                                                        *)

RECURSIVE totalLength(_)
totalLength(set) ==
    IF set = {} THEN 0
    ELSE LET s == CHOOSE x \in set : TRUE
         IN  Len(s) + totalLength(set \ {s})

maxLengthFirstOnly(s1, s2) == Len(s1)

maxLength(s1, s2) == Max(Len(s1), Len(s2))

similarityMetric(s1, s2, minLength) ==
    Divide(totalLength(findCommonSubstrings(s1, s2, minLength)), maxLength(s1, s2))

-----------------------------------------------------------------------------
(* editDistance                                                            *)

min3OmitSubstitution(a, b, c) == Min(a, b)

min3(a, b, c) == Min(a, Min(b, c))

\* The inner loop of editDistance for row ii (0-based as in the code), from
\* column jj on; dp is the table filled so far.
RECURSIVE editRow(_, _, _, _, _)
editRow(s1, s2, ii, jj, dp) ==
    IF jj > Len(s2) THEN dp
    ELSE LET cell ==
                 IF ii = 0 THEN jj
                 ELSE IF jj = 0 THEN ii
                 ELSE IF s1[ii] = s2[jj] THEN dp[<<ii - 1, jj - 1>>]
                 ELSE 1 + min3(dp[<<ii - 1, jj>>], dp[<<ii, jj - 1>>],
                               dp[<<ii - 1, jj - 1>>])
         IN  editRow(s1, s2, ii, jj + 1, [dp EXCEPT ![<<ii, jj>>] = cell])

\* The outer loop of editDistance from row ii on
RECURSIVE editLoop(_, _, _, _)
editLoop(s1, s2, ii, dp) ==
    IF ii > Len(s1) THEN dp
    ELSE editLoop(s1, s2, ii + 1, editRow(s1, s2, ii, 0, dp))

editDistance(s1, s2) ==
    editLoop(s1, s2, 0, zeroTable(Len(s1), Len(s2)))[<<Len(s1), Len(s2)>>]

-----------------------------------------------------------------------------
(* broderContainment                                                       *)

\* the double loop over (i, j), i < j <= size: every non-empty substring
allSubstrings(s) ==
    {substr(s, a, b - a) : <<a, b>> \in {p \in (0..Len(s)) \X (0..Len(s)) : p[1] < p[2]}}

broderContainment(s1, s2) ==
    LET substrings1 == allSubstrings(s1)
        substrings2 == allSubstrings(s2)
        countContained == Cardinality({s \in substrings1 : s \in substrings2})
    IN  Divide(countContained, Cardinality(substrings1))

-----------------------------------------------------------------------------
(* The metrics called on one pair of texts                                 *)

MetricInputs ==
    (Texts \X Texts \X (1..MaxMinLen)) \cup {<<Kitten, Sitting, 1>>}

InitMetrics ==
    /\ \E in \in MetricInputs :
          /\ str1 = in[1]
          /\ str2 = in[2]
          /\ minLen = in[3]
    /\ pc = "find"
    /\ substrings = {}
    /\ sim = Zero
    /\ ed = 0
    /\ bc = Zero
    /\ documents = << >>
    /\ similarityMatrix = << >>
    /\ i = 0
    /\ j = 0
    /\ calls = << >>
    /\ mostSimilarPairs = << >>
    /\ pending = {}
    /\ highlightedStr1 = << >>
    /\ highlightedStr2 = << >>

CallFindCommonSubstrings ==
    /\ pc = "find"
    /\ substrings' = findCommonSubstrings(str1, str2, minLen)
    /\ pc' = "similarity"
    /\ UNCHANGED <<str1, str2, minLen, sim, ed, bc, mainVars, highlightVars>>

CallSimilarityMetric ==
    /\ pc = "similarity"
    /\ sim' = similarityMetric(str1, str2, minLen)
    /\ pc' = "edit"
    /\ UNCHANGED <<str1, str2, minLen, substrings, ed, bc, mainVars, highlightVars>>

CallEditDistance ==
    /\ pc = "edit"
    /\ ed' = editDistance(str1, str2)
    /\ pc' = "broder"
    /\ UNCHANGED <<str1, str2, minLen, substrings, sim, bc, mainVars, highlightVars>>

CallBroderContainment ==
    /\ pc = "broder"
    /\ bc' = broderContainment(str1, str2)
    /\ pc' = "done"
    /\ UNCHANGED <<str1, str2, minLen, substrings, sim, ed, mainVars, highlightVars>>

NextMetrics ==
    \/ CallFindCommonSubstrings
    \/ CallSimilarityMetric
    \/ CallEditDistance
    \/ CallBroderContainment

SpecMetrics == InitMetrics /\ [][NextMetrics]_vars

-----------------------------------------------------------------------------
(* main: the similarity matrix and the ranking of all pairs                *)

\* largest corpus
MaxDocs == 3

\* int minLength = 5 of main
minLength == 5

A5 == <<"a", "a", "a", "a", "a">>
A6 == <<"a", "a", "a", "a", "a", "a">>

\* The texts a corpus is drawn from: an empty file, two texts that share runs
\* of at least minLength characters, and one that shares nothing.
DocPool == {<< >>, A5, A6, <<"b">>}

RECURSIVE Corpora(_)
Corpora(n) ==
    IF n = 0 THEN {<< >>}
    ELSE {Append(c, d) : c \in Corpora(n - 1), d \in DocPool}

\* vector<vector<double>> similarityMatrix(n, vector<double>(n, 0.0)); indices from 0
zeroMatrix(n) == [c \in (0..(n - 1)) \X (0..(n - 1)) |-> Zero]

\* body of the inner loop of generateSimilarityMatrix without the mirrored store
matrixBodyNoMirror(matrix, docs, ii, jj) ==
    LET similarity == similarityMetric(docs[ii + 1], docs[jj + 1], minLength)
    IN  [matrix EXCEPT ![<<ii, jj>>] = similarity]

\* body of the inner loop of generateSimilarityMatrix
matrixBody(matrix, docs, ii, jj) ==
    LET similarity == similarityMetric(docs[ii + 1], docs[jj + 1], minLength)
    IN  [matrix EXCEPT ![<<ii, jj>>] = similarity, ![<<jj, ii>>] = similarity]

\* the pair loops of main started at j = i + 2
RECURSIVE pairLoopSkipFirst(_, _, _, _)
pairLoopSkipFirst(n, ii, jj, acc) ==
    IF ii >= n THEN acc
    ELSE IF jj >= n THEN pairLoopSkipFirst(n, ii + 1, ii + 3, acc)
    ELSE pairLoopSkipFirst(n, ii, jj + 1, Append(acc, <<ii, jj>>))

allPairsSkipFirst(n) == pairLoopSkipFirst(n, 0, 2, << >>)

\* the two nested loops of main that push_back every {i, j}, i < j
RECURSIVE pairLoop(_, _, _, _)
pairLoop(n, ii, jj, acc) ==
    IF ii >= n THEN acc
    ELSE IF jj >= n THEN pairLoop(n, ii + 1, ii + 2, acc)
    ELSE pairLoop(n, ii, jj + 1, Append(acc, <<ii, jj>>))

allPairs(n) == pairLoop(n, 0, 1, << >>)

comparePairs(a, b, matrix) == Greater(matrix[a], matrix[b])

\* Compare requirement of std::sort: comp is a strict weak ordering on the
\* elements (irreflexive and transitive, with transitive incomparability).
StrictWeakOrdering(elems, matrix) ==
    LET lt(a, b) == comparePairs(a, b, matrix)
        eq(a, b) == ~lt(a, b) /\ ~lt(b, a)
    IN  /\ \A a \in elems : ~lt(a, a)
        /\ \A a, b, c \in elems : lt(a, b) /\ lt(b, c) => lt(a, c)
        /\ \A a, b, c \in elems : eq(a, b) /\ eq(b, c) => eq(a, c)

Rearrangements(seq) ==
    {[k \in 1..Len(seq) |-> seq[f[k]]] : f \in Permutations(1..Len(seq))}

\* The results std::sort(begin, end, comp) may leave: a rearrangement in which
\* no element is ordered by comp before an earlier one; the order of
\* equivalent elements is not guaranteed to be preserved.  With a comp that
\* is no strict weak ordering the behaviour is undefined: any rearrangement.
sortOutcomes(seq, matrix) ==
    IF StrictWeakOrdering({seq[k] : k \in 1..Len(seq)}, matrix)
    THEN {p \in Rearrangements(seq) :
             \A x, y \in 1..Len(seq) : x < y => ~comparePairs(p[y], p[x], matrix)}
    ELSE Rearrangements(seq)

NumDocs == Len(documents)

Init ==
    /\ \E n \in 0..MaxDocs : documents \in Corpora(n)
    /\ pc = "matrix"
    /\ similarityMatrix = zeroMatrix(Len(documents))
    /\ i = 0
    /\ j = 1
    /\ calls = [c \in (0..(Len(documents) - 1)) \X (0..(Len(documents) - 1)) |-> 0]
    /\ mostSimilarPairs = << >>
    /\ str1 = << >>
    /\ str2 = << >>
    /\ minLen = minLength
    /\ substrings = {}
    /\ sim = Zero
    /\ ed = 0
    /\ bc = Zero
    /\ pending = {}
    /\ highlightedStr1 = << >>
    /\ highlightedStr2 = << >>

otherVars == <<str1, str2, minLen, metricVars, highlightVars>>

\* one iteration of the inner loop of generateSimilarityMatrix
MatrixInner ==
    /\ pc = "matrix"
    /\ i < NumDocs
    /\ j < NumDocs
    /\ similarityMatrix' = matrixBody(similarityMatrix, documents, i, j)
    /\ calls' = [calls EXCEPT ![<<i, j>>] = @ + 1]
    /\ j' = j + 1
    /\ UNCHANGED <<pc, i, documents, mostSimilarPairs, otherVars>>

\* the inner loop ends: ++i, j = i + 1
MatrixOuter ==
    /\ pc = "matrix"
    /\ i < NumDocs
    /\ j >= NumDocs
    /\ i' = i + 1
    /\ j' = i + 2
    /\ UNCHANGED <<pc, similarityMatrix, calls, documents, mostSimilarPairs, otherVars>>

\* return similarityMatrix
MatrixReturn ==
    /\ pc = "matrix"
    /\ i >= NumDocs
    /\ pc' = "pairs"
    /\ UNCHANGED <<similarityMatrix, calls, i, j, documents, mostSimilarPairs, otherVars>>

\* main fills mostSimilarPairs
BuildPairs ==
    /\ pc = "pairs"
    /\ mostSimilarPairs' = allPairs(NumDocs)
    /\ pc' = "sort"
    /\ UNCHANGED <<similarityMatrix, calls, i, j, documents, otherVars>>

\* sort(mostSimilarPairs.begin(), mostSimilarPairs.end(), comparePairs)
SortPairs ==
    /\ pc = "sort"
    /\ mostSimilarPairs' \in sortOutcomes(mostSimilarPairs, similarityMatrix)
    /\ pc' = "done"
    /\ UNCHANGED <<similarityMatrix, calls, i, j, documents, otherVars>>

Next ==
    \/ MatrixInner
    \/ MatrixOuter
    \/ MatrixReturn
    \/ BuildPairs
    \/ SortPairs

Spec == Init /\ [][Next]_vars

-----------------------------------------------------------------------------
(* highlightSimilarities                                                   *)

\* longest text the highlighter is called with
MaxHighlightLen == 10
\* largest minLength the highlighter is called with (the smallest is main's 5)
MaxHighlightMinLen == 6

MarkOpen == <<"<", "m", "a", "r", "k", ">">>
MarkClose == <<"<", "/", "m", "a", "r", "k", ">">>

MarkWord == <<"m", "a", "r", "k">>

\* The texts highlighted: the slices of markmarkmark..., which hold the
\* letters of the markers and none of '<', '>', '/'.
Slice(start, len) == [k \in 1..len |-> MarkWord[((start + k - 1) % 4) + 1]]

HighlightStarts == {0, 1}

HighlightTexts == {Slice(st, len) : st \in HighlightStarts, len \in 4..MaxHighlightLen}

npos == -1

\* std::string::find(t): the first position (from 0) at which t occurs, or npos
find(s, t) ==
    LET hits == {p \in 0..(Len(s) - Len(t)) : substr(s, p, Len(t)) = t}
    IN  IF hits = {} THEN npos
        ELSE CHOOSE p \in hits : \A q \in hits : p <= q

\* std::string::insert(pos, t)
insert(s, pos, t) == SubSeq(s, 1, pos) \o t \o SubSeq(s, pos + 1, Len(s))

\* the two inserts with the closing tag placed at pos + size
markAtUnshifted(s, pos, size) ==
    insert(insert(s, pos, MarkOpen), pos + size, MarkClose)

\* the two inserts of one branch of the loop body: <mark> at pos, </mark> at pos + size + 6
markAt(s, pos, size) ==
    insert(insert(s, pos, MarkOpen), pos + size + 6, MarkClose)

\* one branch of the loop body: if (pos != npos) { insert; insert; }
highlightOne(s, substring) ==
    LET pos == find(s, substring)
    IN  IF pos # npos THEN markAt(s, pos, Len(substring)) ELSE s

InitHighlight ==
    /\ str1 \in HighlightTexts
    /\ str2 \in HighlightTexts
    /\ minLen \in minLength..MaxHighlightMinLen
    /\ pc = "call"
    /\ pending = {}
    /\ highlightedStr1 = << >>
    /\ highlightedStr2 = << >>
    /\ substrings = {}
    /\ sim = Zero
    /\ ed = 0
    /\ bc = Zero
    /\ documents = << >>
    /\ similarityMatrix = << >>
    /\ i = 0
    /\ j = 0
    /\ calls = << >>
    /\ mostSimilarPairs = << >>

\* entry of highlightSimilarities: the common substrings and the two copies
HighlightBegin ==
    /\ pc = "call"
    /\ substrings' = findCommonSubstrings(str1, str2, minLen)
    /\ pending' = substrings'
    /\ highlightedStr1' = str1
    /\ highlightedStr2' = str2
    /\ pc' = "loop"
    /\ UNCHANGED <<str1, str2, minLen, sim, ed, bc, mainVars>>

\* one iteration of the range-for over the vector copied from the
\* unordered_set: the iteration order is unspecified, any unvisited element
\* may be the next
HighlightIterate ==
    /\ pc = "loop"
    /\ \E substring \in pending :
          /\ highlightedStr1' = highlightOne(highlightedStr1, substring)
          /\ highlightedStr2' = highlightOne(highlightedStr2, substring)
          /\ pending' = pending \ {substring}
    /\ UNCHANGED <<pc, str1, str2, minLen, metricVars, mainVars>>

\* the loop ends and the two rendered texts are returned, framed by the
\* fixed headings of line 175
HighlightReturn ==
    /\ pc = "loop"
    /\ pending = {}
    /\ pc' = "returned"
    /\ UNCHANGED <<str1, str2, minLen, metricVars, mainVars, highlightVars>>

NextHighlight ==
    \/ HighlightBegin
    \/ HighlightIterate
    \/ HighlightReturn

SpecHighlight == InitHighlight /\ [][NextHighlight]_vars

-----------------------------------------------------------------------------
(* Reference notions the claims are stated with                            *)

\* t occurs contiguously in s
Occurs(t, s) ==
    \E p \in 0..(Len(s) - Len(t)) : \A k \in 1..Len(t) : s[p + k] = t[k]

\* the distinct strings of length >= k that occur in both a and b
CommonSubstringsOf(a, b, k) ==
    {t \in {SubSeq(a, x, y) : x \in 1..Len(a), y \in 1..Len(a)} :
        Len(t) >= k /\ Len(t) >= 1 /\ Occurs(t, a) /\ Occurs(t, b)}

\* the texts one insertion, deletion or substitution of a character away
\* from s, no longer than MaxLen + 1
OneEditFrom(s) ==
    LET deletions == {SubSeq(s, 1, p - 1) \o SubSeq(s, p + 1, Len(s)) : p \in 1..Len(s)}
        substitutions == {[s EXCEPT ![p] = c] : p \in 1..Len(s), c \in Alphabet}
        insertions ==
            IF Len(s) > MaxLen THEN {}
            ELSE {SubSeq(s, 1, p) \o <<c>> \o SubSeq(s, p + 1, Len(s)) :
                     p \in 0..Len(s), c \in Alphabet}
    IN  deletions \cup substitutions \cup insertions

\* length of a shortest edit path from the texts of `reached` (k edits from
\* the start) to b
RECURSIVE PathLength(_, _, _)
PathLength(reached, b, k) ==
    IF b \in reached THEN k
    ELSE PathLength(reached \cup UNION {OneEditFrom(s) : s \in reached}, b, k + 1)

MinEdits(a, b) == PathLength({a}, b, 0)

AfterFind == pc \in {"similarity", "edit", "broder", "done"}
AfterSimilarity == pc \in {"edit", "broder", "done"}

-----------------------------------------------------------------------------
(* Claims about the metrics, under SpecMetrics                             *)

\* C1 (as claimed): findCommonSubstrings returns exactly the distinct strings
\* of length >= minLength that occur contiguously in both texts.
C1_ExactlyTheCommonSubstrings ==
    AfterFind => substrings = CommonSubstringsOf(str1, str2, minLen)

\* C2 (as claimed): for texts that are not both empty the similarity lies in
\* [0, 1]: the summed lengths of the returned substrings never exceed
\* max(len(A), len(B)).
C2_SimilarityWithinUnitInterval ==
    (AfterSimilarity /\ ~(str1 = << >> /\ str2 = << >>)) =>
        /\ ~sim.nan
        /\ 0 <= sim.num
        /\ sim.num <= sim.den
        /\ totalLength(substrings) <= Max(Len(str1), Len(str2))

\* C3: the substrings collected for (A, B) are the ones collected for (B, A),
\* and similarityMetric(A, B, k) is the value of similarityMetric(B, A, k)
\* (the same quotient; both are NaN when both texts are empty).
C3_Symmetric ==
    AfterSimilarity =>
        /\ substrings = findCommonSubstrings(str2, str1, minLen)
        /\ sim = similarityMetric(str2, str1, minLen)

\* C3 witness: texts of different length with a common substring that sits at
\* different offsets in the two, after both calls
C3_Witness ==
    /\ pc = "done"
    /\ Len(str1) < Len(str2)
    /\ substrings # {}
    /\ sim.num > 0
    /\ \E s \in substrings : find(str1, s) # find(str2, s)

\* C4: editDistance(A, B) is the length of a shortest path of single-character
\* insertions, deletions and substitutions from A to B; it is 0 for A = B,
\* never exceeds max(len(A), len(B)), and is 3 for "kitten", "sitting".
C4_EditDistanceIsMinimal ==
    pc \in {"broder", "done"} =>
        /\ (str1 \in Texts /\ str2 \in Texts) => ed = MinEdits(str1, str2)
        /\ str1 = str2 => ed = 0
        /\ ed >= 0
        /\ ed <= Max(Len(str1), Len(str2))
        /\ (str1 = Kitten /\ str2 = Sitting) => ed = 3

\* C4 witness: a shorter non-empty text whose shortest path to the longer one
\* substitutes and inserts
C4_Witness ==
    /\ pc = "done"
    /\ str1 \in Texts
    /\ str2 \in Texts
    /\ Len(str1) >= 1
    /\ Len(str1) < Len(str2)
    /\ ed = Len(str2)
    /\ ed = MinEdits(str1, str2)

\* C5 (as claimed): on two empty texts similarityMetric is 0.0, editDistance
\* is 0 and broderContainment is 0.0; no metric is a division by zero.
C5_EmptyTextsAreDefined ==
    (pc = "done" /\ str1 = << >> /\ str2 = << >>) =>
        /\ sim = Zero
        /\ ed = 0
        /\ bc = Zero

-----------------------------------------------------------------------------
(* Claims about the matrix and the ranking, under Spec                     *)

Indices == 0..(NumDocs - 1)
PairsInOrder == {p \in Indices \X Indices : p[1] < p[2]}

Occurrences(seq, x) == Cardinality({k \in 1..Len(seq) : seq[k] = x})

LexBefore(a, b) == a[1] < b[1] \/ (a[1] = b[1] /\ a[2] < b[2])

\* C6: the matrix returned by generateSimilarityMatrix is n x n, zero on the
\* diagonal, symmetric, holds similarityMetric(documents[i], documents[j],
\* minLength) for every i < j, and that value was computed exactly once.
C6_MatrixComplete ==
    pc # "matrix" =>
        /\ DOMAIN similarityMatrix = Indices \X Indices
        /\ \A a \in Indices : similarityMatrix[<<a, a>>] = Zero
        /\ \A a, b \in Indices : similarityMatrix[<<a, b>>] = similarityMatrix[<<b, a>>]
        /\ \A p \in PairsInOrder :
              /\ similarityMatrix[p] =
                     similarityMetric(documents[p[1] + 1], documents[p[2] + 1], minLength)
              /\ calls[p] = 1
        /\ \A p \in (Indices \X Indices) \ PairsInOrder : calls[p] = 0

\* C6 witness: a returned matrix of a full corpus with two different
\* non-zero similarities
C6_Witness ==
    /\ pc = "pairs"
    /\ NumDocs = MaxDocs
    /\ \E p, q \in PairsInOrder :
          /\ similarityMatrix[p] # similarityMatrix[q]
          /\ similarityMatrix[p] # Zero
          /\ similarityMatrix[q] # Zero

\* C7 (as claimed): after sorting, the pair list holds every (i, j), i < j < n,
\* exactly once and nothing else, and each entry's matrix value is greater
\* than or equal to the value of the entry that follows it.
C7_RankedAllPairsNonIncreasing ==
    pc = "done" =>
        /\ Len(mostSimilarPairs) = Cardinality(PairsInOrder)
        /\ \A p \in PairsInOrder : Occurrences(mostSimilarPairs, p) = 1
        /\ \A k \in 1..Len(mostSimilarPairs) : mostSimilarPairs[k] \in PairsInOrder
        /\ \A k \in 1..(Len(mostSimilarPairs) - 1) :
              GreaterEq(similarityMatrix[mostSimilarPairs[k]],
                        similarityMatrix[mostSimilarPairs[k + 1]])

\* C9 (as claimed): two pairs with equal matrix value keep their insertion
\* order, which is lexicographic in (i, j), in the sorted list.
C9_TiesKeepInsertionOrder ==
    pc = "done" =>
        \A x, y \in 1..Len(mostSimilarPairs) :
            (/\ EqualTo(similarityMatrix[mostSimilarPairs[x]],
                        similarityMatrix[mostSimilarPairs[y]])
             /\ LexBefore(mostSimilarPairs[x], mostSimilarPairs[y]))
            => x < y

\* C9 (amended): two pairs with equal matrix value are both in the sorted list,
\* each exactly once; their relative order is not fixed (C9_TiesReordered is
\* reachable), so the matrix determines the ranking only up to the order of
\* its ties.
C9_TiesBothRankedOnce ==
    pc = "done" =>
        \A a, b \in PairsInOrder :
            (a # b /\ similarityMatrix[a] = similarityMatrix[b]) =>
                /\ Occurrences(mostSimilarPairs, a) = 1
                /\ Occurrences(mostSimilarPairs, b) = 1

\* C9 witness: two pairs of equal non-zero value ranked against their
\* insertion order
C9_TiesReordered ==
    /\ pc = "done"
    /\ \E x, y \in 1..Len(mostSimilarPairs) :
          /\ x < y
          /\ EqualTo(similarityMatrix[mostSimilarPairs[x]],
                     similarityMatrix[mostSimilarPairs[y]])
          /\ similarityMatrix[mostSimilarPairs[x]] # Zero
          /\ LexBefore(mostSimilarPairs[y], mostSimilarPairs[x])

-----------------------------------------------------------------------------
(* Claims about the highlighter, under SpecHighlight                       *)

\* Reads a rendered text from position p on: the markers met, the depth of
\* open markers, the text left when the markers are deleted, and the offsets
\* in that text at which markers open and close.  ok is FALSE once a closing
\* marker precedes its opening marker or a '<', '/' or '>' is no part of a
\* whole marker.
RECURSIVE Read(_, _, _)
Read(h, p, acc) ==
    IF ~acc.ok \/ p > Len(h) THEN acc
    ELSE IF p + 5 <= Len(h) /\ SubSeq(h, p, p + 5) = MarkOpen
         THEN Read(h, p + 6,
                   [acc EXCEPT !.depth = @ + 1,
                               !.deepest = Max(@, acc.depth + 1),
                               !.opens = @ \cup {Len(acc.text)}])
    ELSE IF p + 6 <= Len(h) /\ SubSeq(h, p, p + 6) = MarkClose
         THEN IF acc.depth = 0 THEN [acc EXCEPT !.ok = FALSE]
              ELSE Read(h, p + 7,
                        [acc EXCEPT !.depth = @ - 1,
                                    !.closes = @ \cup {Len(acc.text)}])
    ELSE IF h[p] \in {"<", "/", ">"} THEN [acc EXCEPT !.ok = FALSE]
    ELSE Read(h, p + 1, [acc EXCEPT !.text = Append(@, h[p])])

Rendered(h) ==
    Read(h, 1, [ok |-> TRUE, depth |-> 0, deepest |-> 0, text |-> << >>,
                opens |-> {}, closes |-> {}])

\* s holds none of '<', '>' and '/'
PlainText(s) == \A k \in 1..Len(s) : s[k] \notin {"<", ">", "/"}

WellNested(h) == Rendered(h).ok /\ Rendered(h).depth = 0

\* a marker opens at offset p of the original text and one closes at p + n
MarkedAt(h, p, n) == p \in Rendered(h).opens /\ (p + n) \in Rendered(h).closes

\* C8 (as claimed): when the loop has ended, every common substring has a
\* marked occurrence in each rendered text, at its first position in the
\* original text.
C8_EveryFirstOccurrenceMarked ==
    pc = "returned" =>
        \A s \in substrings :
            /\ MarkedAt(highlightedStr1, find(str1, s), Len(s))
            /\ MarkedAt(highlightedStr2, find(str2, s), Len(s))

\* C10: for texts without '<', '>' and '/' and minLength >= 5, after every
\* iteration of the loop both rendered texts hold only balanced, properly
\* nested markers, and deleting the markers gives back the original texts.
C10_MarkersBalanced ==
    (/\ pc \in {"loop", "returned"}
     /\ PlainText(str1)
     /\ PlainText(str2)
     /\ minLen >= 5) =>
        /\ WellNested(highlightedStr1)
        /\ WellNested(highlightedStr2)
        /\ Rendered(highlightedStr1).text = str1
        /\ Rendered(highlightedStr2).text = str2

\* C10 witness: different texts, three or more substrings visited, markers
\* nested in the first rendered text and several markers in the second
C10_Witness ==
    /\ pc = "returned"
    /\ str1 # str2
    /\ Cardinality(substrings) >= 3
    /\ Rendered(highlightedStr1).deepest >= 2
    /\ Cardinality(Rendered(highlightedStr2).opens) >= 2

====
